---- MODULE Spec2Model ----
(***************************************************************************)
(* Cover metrics of circulo (src/circulo/metrics/cover.py).                *)
(*                                                                         *)
(* A graph is a list of edges es (edge e has endpoints es[e][1] = source,  *)
(* es[e][2] = target) over the vertices 0..NumV-1, with one numeric edge   *)
(* attribute "weight" whose values are wt.  A cover is the list clusters   *)
(* of vertex sets.  Python's 0-based cluster index i is the 1-based index  *)
(* i+1 of the sequences here; edges are named by their position in es.     *)
(*                                                                         *)
(* Numbers computed by the metrics are exact rationals <<n, d>> with d > 0 *)
(* in lowest terms; <<0, 0>> is NaN and <<1, 0>> is +inf.                  *)
(***************************************************************************)
EXTENDS Integers, Sequences, FiniteSets, TLC

\* ------------------------------------------------------------------ bounds
\* the general inputs: vertices, clusters, edges, largest edge weight
NumV == 3
MaxK == 2
MaxEdges == 2
MaxW == 2
\* clusters of a partition
MaxParts == 3
\* the inputs of the single-metric specifications
SmallV == 2
SmallK == 1
SmallEdges == 1

Weights == 0 .. MaxW

VARIABLES
    nv,         \* cover.graph.vcount(); the vertices are 0 .. nv-1
    es,         \* cover.graph.es: sequence of <<source, target>>
    wt,         \* values of the edge attribute "weight", parallel to es
    clusters,   \* the cover: sequence of vertex sets
    sg_metrics, \* sg_metrics[i]: the metric names subgraph i reports
    attrs,      \* names of the edge attributes of the graph
    call,       \* the last call: [fn, weights, allow_nan]
    status,     \* "idle", "returned" or the name of the exception raised
    rv,         \* list returned by a per-cluster metric
    ee,         \* list returned by external_edges
    odf,        \* matrix returned by out_degree_fraction
    metrics     \* cover.metrics

vars == <<nv, es, wt, clusters, sg_metrics, attrs, call, status, rv, ee, odf,
          metrics>>

Vertices == 0 .. (nv - 1)

\* ------------------------------------------------------------ input spaces
SeqsUpTo(S, n) == UNION {[1 .. m -> S] : m \in 0 .. n}

\* edge lists of a directed or undirected multigraph, self-loops included
EdgeLists(n, max_edges) == SeqsUpTo((0 .. n - 1) \X (0 .. n - 1), max_edges)
\* edge lists of an undirected multigraph: igraph reports source <= target
UndirectedEdgeLists(n, max_edges) ==
    SeqsUpTo({p \in (0 .. n - 1) \X (0 .. n - 1) : p[1] <= p[2]}, max_edges)
Covers(n, max_k) == SeqsUpTo(SUBSET (0 .. n - 1), max_k)

\* ------------------------------------------------------- igraph accessors
\* cover.membership[v]: the cluster indices that contain vertex v
Membership(cl, v) == {i \in 1 .. Len(cl) : v \in cl[i]}

\* cover.crossing()[e]: igraph's VertexCover.crossing() is true for an edge
\* iff the membership lists of its two endpoints are disjoint
Crossing(cl, edge) == Membership(cl, edge[1]) \cap Membership(cl, edge[2]) = {}

\* ------------------------------------------------------------ small helpers
RECURSIVE SumSeq(_)
SumSeq(s) == IF s = <<>> THEN 0 ELSE Head(s) + SumSeq(Tail(s))

SeqRange(s) == {s[j] : j \in 1 .. Len(s)}

\* the members of a finite set of integers, in ascending order
RECURSIVE Ascending(_)
Ascending(S) ==
    IF S = {} THEN <<>>
    ELSE LET m == CHOOSE x \in S : \A y \in S : x <= y
         IN  <<m>> \o Ascending(S \ {m})

\* --------------------------------------------------------- external_edges
\* membership_sets: the vertex sets of the communities that occur in some
\* vertex's membership list, in ascending community order
MembershipSets(cl) ==
    LET idx == Ascending({i \in 1 .. Len(cl) : cl[i] # {}})
    IN  [j \in 1 .. Len(idx) |-> cl[idx[j]]]

InBoundarySrcOnly(src, dst, membership_set) ==
    src \in membership_set /\ dst \notin membership_set

\* the if / elif of the inner loop
InBoundary(src, dst, membership_set) ==
    \/ src \in membership_set /\ dst \notin membership_set
    \/ dst \in membership_set /\ src \notin membership_set

ExternalEdges(g, cl) ==
    LET ms == MembershipSets(cl)
    IN  [i \in 1 .. Len(cl) |->
            IF i <= Len(ms)
            THEN Ascending({e \in 1 .. Len(g) :
                                /\ Crossing(cl, g[e])
                                /\ InBoundary(g[e][1], g[e][2], ms[i])})
            ELSE <<>>]

\* ------------------------------------------------------------- arithmetic
RECURSIVE GCD(_, _)
GCD(a, b) == IF b = 0 THEN a ELSE GCD(b, a % b)

NaN == <<0, 0>>
Inf == <<1, 0>>
Zero == <<0, 1>>
One == <<1, 1>>
\* marks the entry of a result list at which Python raises ZeroDivisionError
ZeroDiv == <<0, -1>>

IsNumber(x) == x[2] > 0

\* Python's n / d for n >= 0 and d > 0
Frac(n, d) == LET g == GCD(n, d) IN <<n \div g, d \div g>>

\* Python's x + y on floats
Plus(x, y) ==
    IF x = NaN \/ y = NaN THEN NaN
    ELSE IF x = Inf \/ y = Inf THEN Inf
    ELSE Frac(x[1] * y[2] + y[1] * x[2], x[2] * y[2])

\* x <= y for two numbers
Leq(x, y) == x[1] * y[2] <= y[1] * x[2]

\* float(mode): mode = "nan" if allow_nan else 0
Mode(allow_nan) == IF allow_nan THEN NaN ELSE Zero

RECURSIVE SumInt(_, _)
SumInt(f, S) ==
    IF S = {} THEN 0
    ELSE LET x == CHOOSE y \in S : TRUE IN f[x] + SumInt(f, S \ {x})

RECURSIVE SumNum(_, _)
SumNum(f, S) ==
    IF S = {} THEN Zero
    ELSE LET x == CHOOSE y \in S : TRUE IN Plus(f[x], SumNum(f, S \ {x}))

\* ------------------------------------------------------- weight resolution
\* A weight spec is "none" (None), "weight" (the name of the graph's edge
\* attribute) or "array" (an explicit list of per-edge values; the list
\* passed is wt).  Attribute names are pairs so that a synthetic name never
\* equals a user's.
WeightSpecs == {"none", "weight", "array"}

NamedAttr == <<"name", "weight">>
NoAttr == <<"none", "none">>

\* uuid.uuid5(uuid.NAMESPACE_DNS, '<metric_name>.circulo.lab41')
Uuid5(metric_name) == <<"uuid5", metric_name>>

\* __get_weight_attr: (weight_attr, remove) and the graph's attribute names
\* after the call
GetWeightAttr(a, metric_name, weights) ==
    IF weights = "weight"
    THEN [w_attr |-> NamedAttr, remove |-> FALSE, attrs |-> a]
    ELSE IF weights # "none"
    THEN [w_attr |-> Uuid5(metric_name), remove |-> TRUE,
          attrs |-> a \cup {Uuid5(metric_name)}]
    ELSE [w_attr |-> NoAttr, remove |-> FALSE, attrs |-> a]

\* __remove_weight_attr: with remove set, `del G.es[uid]` names the undefined
\* variable uid, so the call raises NameError and deletes nothing
RemoveWeightAttr(a, attr_name, remove) ==
    IF remove THEN [raised |-> "NameError", attrs |-> a]
    ELSE [raised |-> "none", attrs |-> a]

\* e[w_attr], and 1 for an unweighted sum
EdgeWeight(e, w_attr) == IF w_attr = NoAttr THEN 1 ELSE wt[e]

\* __weighted_sum over a list of distinct edges E
WeightedSum(E, w_attr) == SumInt([e \in E |-> EdgeWeight(e, w_attr)], E)

\* ----------------------------------------------------- graph and subgraphs
AllEdges == 1 .. Len(es)

\* cover.size(i), cover.subgraph(i).vcount()
Size(i) == Cardinality(clusters[i])

\* cover.subgraph(i).es(): the edges with both endpoints in cluster i
SubgraphEdges(i) ==
    {e \in AllEdges : es[e][1] \in clusters[i] /\ es[e][2] \in clusters[i]}

\* how many endpoints of edge e are vertex v (2 for a self-loop)
Ends(e, v) == (IF es[e][1] = v THEN 1 ELSE 0) + (IF es[e][2] = v THEN 1 ELSE 0)

StrengthUnweighted(E, v, w_attr) ==
    SumInt([e \in E |-> Ends(e, v)], E)

\* graph.strength(weights=w_attr)[v] of the graph whose edges are E
Strength(E, v, w_attr) ==
    SumInt([e \in E |-> Ends(e, v) * EdgeWeight(e, w_attr)], E)

\* ------------------------------------------------------ per-cluster values
\* fomd: twice the median of the graph's strengths (twice, to stay integral)
TwiceMedian(w_attr) ==
    LET st == [v \in Vertices |-> Strength(AllEdges, v, w_attr)]
        Kth(k) == CHOOSE x \in {st[v] : v \in Vertices} :
                      /\ Cardinality({v \in Vertices : st[v] < x}) < k
                      /\ k <= Cardinality({v \in Vertices : st[v] <= x})
    IN  IF nv % 2 = 1 THEN 2 * Kth((nv + 1) \div 2)
        ELSE Kth(nv \div 2) + Kth(nv \div 2 + 1)

\* sum(1.0 for v in subgraph.strength(...) if v > median) / subgraph.vcount()
FomdValue(i, w_attr, twice_median) ==
    LET sub == SubgraphEdges(i)
        above == {v \in clusters[i] :
                    2 * Strength(sub, v, w_attr) > twice_median}
    IN  IF Size(i) = 0 THEN ZeroDiv ELSE Frac(Cardinality(above), Size(i))

ExpansionValue(i, ext, w_attr) ==
    IF Size(i) = 0 THEN ZeroDiv
    ELSE Frac(WeightedSum(SeqRange(ext[i]), w_attr), Size(i))

CutRatioValueZeroOnly(i, ext, allow_nan) ==
    LET denominator == Size(i) * (nv - Size(i))
    IN  IF denominator > 0 THEN Frac(Len(ext[i]), denominator) ELSE Zero

CutRatioValue(i, ext, allow_nan) ==
    LET denominator == Size(i) * (nv - Size(i))
    IN  IF denominator > 0 THEN Frac(Len(ext[i]), denominator)
        ELSE Mode(allow_nan)

ConductanceValueExtTest(int_edges_cnt, ext_edges_cnt, allow_nan) ==
    LET denominator == 2 * int_edges_cnt + ext_edges_cnt
    IN  IF ext_edges_cnt > 0 THEN Frac(ext_edges_cnt, denominator)
        ELSE Mode(allow_nan)

ConductanceValue(int_edges_cnt, ext_edges_cnt, allow_nan) ==
    LET denominator == 2 * int_edges_cnt + ext_edges_cnt
    IN  IF denominator > 0 THEN Frac(ext_edges_cnt, denominator)
        ELSE Mode(allow_nan)

SeparabilityValue(int_edges_cnt, ext_edges_cnt, allow_nan) ==
    IF ext_edges_cnt > 0 THEN Frac(int_edges_cnt, ext_edges_cnt)
    ELSE Mode(allow_nan)

\* the term normalized_cut adds to conductance: the fallback is
\* float(allow_nan), 1.0 or 0.0, and not float(mode)
NormalizedCutTerm(int_edges_cnt, ext_edges_cnt, tot_edge_cnt, allow_nan) ==
    LET denominator == 2 * (tot_edge_cnt - int_edges_cnt) + ext_edges_cnt
    IN  IF denominator > 0 THEN Frac(ext_edges_cnt, denominator)
        ELSE IF allow_nan THEN One ELSE Zero

IntCnt(i, w_attr) == WeightedSum(SubgraphEdges(i), w_attr)
ExtCnt(i, ext, w_attr) == WeightedSum(SeqRange(ext[i]), w_attr)

\* ----------------------------------------------------- out_degree_fraction
\* node_index: the endpoint a boundary edge of cluster i is attributed to
NodeIndex(e, i) ==
    IF i \in Membership(clusters, es[e][1]) THEN es[e][1] ELSE es[e][2]

\* ext_edge_per_node[v, 0] after the inner loop over external_edges[i]
ExtEdgePerNode(v, i, ext, w_attr, weights) ==
    LET mine == {e \in SeqRange(ext[i]) : NodeIndex(e, i) = v}
    IN  SumInt([e \in mine |-> IF weights = "none" THEN 1
                                ELSE EdgeWeight(e, w_attr)], mine)

\* what is added to rv[node, i] for a stored entry of ext_edge_per_node
OdfValue(ext_edges_for_this_node, degree, allow_nan) ==
    IF degree # 0 THEN Frac(ext_edges_for_this_node, degree)
    ELSE Mode(allow_nan)

\* rv[v, i]; a zero sum is not stored by the sparse matrix and leaves the
\* entry implicit (zero)
OdfEntry(v, i, ext, w_attr, weights, allow_nan) ==
    LET x == ExtEdgePerNode(v, i, ext, w_attr, weights)
    IN  IF x = 0 THEN Zero
        ELSE OdfValue(x, Strength(AllEdges, v, w_attr), allow_nan)

\* odf.max(0)[0, i]: the maximum of column i, implicit zeros included
RECURSIVE MaxNum(_, _)
MaxNum(f, S) ==
    IF S = {} THEN Zero
    ELSE LET x == CHOOSE y \in S : TRUE
             m == MaxNum(f, S \ {x})
         IN  IF f[x] = NaN \/ m = NaN THEN NaN
             ELSE IF Leq(f[x], m) THEN m ELSE f[x]

MaxOdfFrom(m) ==
    [i \in 1 .. Len(clusters) |->
        MaxNum([v \in Vertices |-> m[<<v, i>>]], Vertices)]

\* numpy's float64 / int: x / 0 is inf (nan for 0 / 0) and raises nothing
NumpyDiv(x, n) ==
    IF x = NaN THEN NaN
    ELSE IF n = 0 THEN (IF x[1] = 0 THEN NaN ELSE Inf)
    ELSE Frac(x[1], x[2] * n)

AvgOdfFrom(m) ==
    [i \in 1 .. Len(clusters) |->
        NumpyDiv(SumNum([v \in Vertices |-> m[<<v, i>>]], Vertices), Size(i))]

\* item[0, 0] > 1/2.0 (false for nan)
OverHalf(x) == IsNumber(x) /\ 2 * x[1] > x[2]

FlakeOdfFrom(m) ==
    [i \in 1 .. Len(clusters) |->
        LET count == Cardinality({v \in Vertices : OverHalf(m[<<v, i>>])})
        IN  IF Size(i) = 0 THEN ZeroDiv ELSE Frac(count, Size(i))]

\* ------------------------------------------------------ the metric functions
\* Each yields [raised, attrs, rv]: the exception the call ends with ("none"
\* when it returns), the graph's attribute names when it ends, and the value
\* returned.
Raise(err, a) == [raised |-> err, attrs |-> a, rv |-> <<>>]
Return(val, a) == [raised |-> "none", attrs |-> a, rv |-> val]

\* the loop that fills rv, then __remove_weight_attr, then return rv
LoopThenRemove(r, vals) ==
    IF \E i \in DOMAIN vals : vals[i] = ZeroDiv
    THEN Raise("ZeroDivisionError", r.attrs)
    ELSE LET d == RemoveWeightAttr(r.attrs, r.w_attr, r.remove)
         IN  IF d.raised # "none" THEN Raise(d.raised, d.attrs)
             ELSE Return(vals, d.attrs)

Fomd(a, weights) ==
    LET r == GetWeightAttr(a, "fomd", weights)
        median == TwiceMedian(r.w_attr)
    IN  LoopThenRemove(r, [i \in 1 .. Len(clusters) |->
                                FomdValue(i, r.w_attr, median)])

Expansion(a, weights) ==
    LET r == GetWeightAttr(a, "expansion", weights)
        ext == ExternalEdges(es, clusters)
    IN  LoopThenRemove(r, [i \in 1 .. Len(clusters) |->
                                ExpansionValue(i, ext, r.w_attr)])

CutRatio(a, allow_nan) ==
    LET ext == ExternalEdges(es, clusters)
    IN  Return([i \in 1 .. Len(clusters) |-> CutRatioValue(i, ext, allow_nan)], a)

Conductance(a, weights, allow_nan) ==
    LET r == GetWeightAttr(a, "conductance", weights)
        ext == ExternalEdges(es, clusters)
    IN  LoopThenRemove(r, [i \in 1 .. Len(clusters) |->
            ConductanceValue(IntCnt(i, r.w_attr), ExtCnt(i, ext, r.w_attr),
                             allow_nan)])

Separability(a, weights, allow_nan) ==
    LET r == GetWeightAttr(a, "separability", weights)
        ext == ExternalEdges(es, clusters)
    IN  LoopThenRemove(r, [i \in 1 .. Len(clusters) |->
            SeparabilityValue(IntCnt(i, r.w_attr), ExtCnt(i, ext, r.w_attr),
                              allow_nan)])

\* rv = cover.conductance(weights) resolves the weights a second time and is
\* called without allow_nan
NormalizedCut(a, weights, allow_nan) ==
    LET r == GetWeightAttr(a, "normalized_cut", weights)
        c == Conductance(r.attrs, weights, FALSE)
        ext == ExternalEdges(es, clusters)
    IN  IF c.raised # "none" THEN c
        ELSE LoopThenRemove([r EXCEPT !.attrs = c.attrs],
                [i \in 1 .. Len(clusters) |->
                    Plus(c.rv[i],
                         NormalizedCutTerm(IntCnt(i, r.w_attr),
                                           ExtCnt(i, ext, r.w_attr),
                                           WeightedSum(AllEdges, r.w_attr),
                                           allow_nan))])

\* the two loops that fill rv
OdfMatrix(ext, w_attr, weights, allow_nan) ==
    [p \in Vertices \X (1 .. Len(clusters)) |->
        OdfEntry(p[1], p[2], ext, w_attr, weights, allow_nan)]

OutDegreeFraction(a, weights, allow_nan) ==
    LET r == GetWeightAttr(a, "out_degree_fraction", weights)
    IN  LoopThenRemove(r, OdfMatrix(ExternalEdges(es, clusters), r.w_attr,
                                    weights, allow_nan))

\* the three metrics called with odf=None compute the matrix themselves
MaximumOutDegreeFraction(a, weights) ==
    LET o == OutDegreeFraction(a, weights, FALSE)
    IN  IF o.raised # "none" THEN o ELSE Return(MaxOdfFrom(o.rv), o.attrs)

AverageOutDegreeFraction(a, weights) ==
    LET o == OutDegreeFraction(a, weights, FALSE)
    IN  IF o.raised # "none" THEN o ELSE Return(AvgOdfFrom(o.rv), o.attrs)

FlakeOutDegreeFraction(a, weights) ==
    LET o == OutDegreeFraction(a, weights, FALSE)
    IN  IF o.raised # "none" THEN o
        ELSE LoopThenRemove([w_attr |-> NoAttr, remove |-> FALSE, attrs |-> o.attrs],
                            FlakeOdfFrom(o.rv))

\* ----------------------------------------------------------- compute_metrics
\* the metric names a subgraph's own report may hold
SubgraphMetricNames == {"Density", "Diameter"}

\* sg.metrics[key] of subgraph i: the value itself is the collaborator's
SubgraphValue(i, key) == <<i, 1>>

\* an entry of cover.metrics: the results list, and whether aggregate() has
\* been applied to it (the aggregation is None otherwise)
Entry(results, aggregated) == [results |-> results, aggregated |-> aggregated]

\* the loop body for subgraph i: every key of sg.metrics gets val appended
MergeSubgraph(m, i) ==
    [key \in DOMAIN m \cup sg_metrics[i] |->
        IF key \in sg_metrics[i]
        THEN IF key \in DOMAIN m
             THEN Entry(m[key].results \o <<SubgraphValue(i, key)>>,
                        m[key].aggregated)
             ELSE Entry(<<SubgraphValue(i, key)>>, FALSE)
        ELSE m[key]]

RECURSIVE MergeFrom(_, _)
MergeFrom(m, i) ==
    IF i > Len(clusters) THEN m ELSE MergeFrom(MergeSubgraph(m, i), i + 1)

\* the last loop aggregates the keys of sg, the last subgraph, only
AggregateLast(m) ==
    [key \in DOMAIN m |->
        IF key \in sg_metrics[Len(clusters)]
        THEN Entry(m[key].results, TRUE) ELSE m[key]]

\* The metrics run in the order of the source and the first exception ends
\* the call.  A metric that returns has left the attribute names as it found
\* them (LoopThenRemove returns only when nothing was attached), so each one
\* starts from a.
ComputeMetrics(a, weights) ==
    LET fomd_r == Fomd(a, weights)
        expansion_r == Expansion(a, weights)
        cut_ratio_r == CutRatio(a, FALSE)
        conductance_r == Conductance(a, weights, FALSE)
        n_cut_r == NormalizedCut(a, weights, FALSE)
        odf_r == OutDegreeFraction(a, weights, FALSE)
        flake_r == LoopThenRemove([w_attr |-> NoAttr, remove |-> FALSE,
                                   attrs |-> a],
                                  FlakeOdfFrom(odf_r.rv))
        sep_r == Separability(a, weights, FALSE)
        nine ==
            [name \in {"Fraction over a Median Degree", "Expansion", "Cut Ratio",
                       "Conductance", "Normalized Cut",
                       "Maximum Out Degree Fraction",
                       "Average Out Degree Fraction",
                       "Flake Out Degree Fraction", "Separability"} |->
                Entry(CASE name = "Fraction over a Median Degree" -> fomd_r.rv
                        [] name = "Expansion" -> expansion_r.rv
                        [] name = "Cut Ratio" -> cut_ratio_r.rv
                        [] name = "Conductance" -> conductance_r.rv
                        [] name = "Normalized Cut" -> n_cut_r.rv
                        [] name = "Maximum Out Degree Fraction" ->
                               MaxOdfFrom(odf_r.rv)
                        [] name = "Average Out Degree Fraction" ->
                               AvgOdfFrom(odf_r.rv)
                        [] name = "Flake Out Degree Fraction" -> flake_r.rv
                        [] name = "Separability" -> sep_r.rv,
                      TRUE)]
    IN  IF fomd_r.raised # "none" THEN fomd_r
        ELSE IF expansion_r.raised # "none" THEN expansion_r
        ELSE IF conductance_r.raised # "none" THEN conductance_r
        ELSE IF n_cut_r.raised # "none" THEN n_cut_r
        ELSE IF odf_r.raised # "none" THEN odf_r
        ELSE IF flake_r.raised # "none" THEN flake_r
        ELSE IF sep_r.raised # "none" THEN sep_r
        \* `for k in sg.metrics.keys()` with no cluster: sg was never bound
        ELSE IF Len(clusters) = 0 THEN Raise("UnboundLocalError", sep_r.attrs)
        ELSE Return(AggregateLast(MergeFrom(nine, 1)), sep_r.attrs)

\* ------------------------------------------------------------------ states
NoCall == [fn |-> "none", weights |-> "none", allow_nan |-> FALSE]

\* nothing has been called: the graph has its attribute "weight" only
Idle ==
    /\ attrs = {NamedAttr}
    /\ call = NoCall
    /\ status = "idle"
    /\ rv = <<>>
    /\ ee = <<>>
    /\ odf = <<>>
    /\ metrics = <<>>

NoSubgraphMetrics == sg_metrics = [i \in 1 .. Len(clusters) |-> {}]

\* ------------------------------------------------- external_edges, called
\* Each behaviour draws one graph and cover and applies one call to it.
\* The graph is unweighted in effect: every edge has weight 1.
InitEE ==
    /\ nv = NumV
    /\ es \in EdgeLists(nv, MaxEdges)
    /\ wt = [e \in 1 .. Len(es) |-> 1]
    /\ clusters \in Covers(nv, MaxK)
    /\ NoSubgraphMetrics
    /\ Idle

CallExternalEdges ==
    /\ status = "idle"
    /\ call' = [fn |-> "external_edges", weights |-> "none", allow_nan |-> FALSE]
    /\ ee' = ExternalEdges(es, clusters)
    /\ status' = "returned"
    /\ UNCHANGED <<nv, es, wt, clusters, sg_metrics, attrs, rv, odf, metrics>>

NextEE == CallExternalEdges

SpecEE == InitEE /\ [][NextEE]_vars

\* covers that are true partitions: every vertex in exactly one cluster
Partitions(n, max_k) ==
    UNION {{[i \in 1 .. k |-> {v \in 0 .. n - 1 : f[v] = i}] :
                f \in [0 .. n - 1 -> 1 .. k]} : k \in 1 .. max_k}

InitPartition ==
    /\ nv = NumV
    /\ es \in EdgeLists(nv, MaxEdges)
    /\ wt = [e \in 1 .. Len(es) |-> 1]
    /\ clusters \in Partitions(nv, MaxParts)
    /\ NoSubgraphMetrics
    /\ Idle

NextPartition == CallExternalEdges

SpecPartition == InitPartition /\ [][NextPartition]_vars

\* ------------------------------------------------------- the metric calls
Init ==
    /\ nv \in 1 .. NumV
    /\ es \in UndirectedEdgeLists(nv, MaxEdges)
    /\ wt \in [1 .. Len(es) -> Weights]
    /\ clusters \in Covers(nv, MaxK)
    /\ NoSubgraphMetrics
    /\ Idle

Finish(fn, weights, allow_nan, out) ==
    /\ status = "idle"
    /\ call' = [fn |-> fn, weights |-> weights, allow_nan |-> allow_nan]
    /\ status' = IF out.raised = "none" THEN "returned" ELSE out.raised
    /\ attrs' = out.attrs
    /\ UNCHANGED <<nv, es, wt, clusters, sg_metrics, ee, metrics>>

CallFomd ==
    \E w \in WeightSpecs :
        LET out == Fomd(attrs, w)
        IN  /\ Finish("fomd", w, FALSE, out)
            /\ rv' = out.rv
            /\ UNCHANGED odf

CallExpansion ==
    \E w \in WeightSpecs :
        LET out == Expansion(attrs, w)
        IN  /\ Finish("expansion", w, FALSE, out)
            /\ rv' = out.rv
            /\ UNCHANGED odf

CallCutRatio ==
    \E an \in BOOLEAN :
        LET out == CutRatio(attrs, an)
        IN  /\ Finish("cut_ratio", "none", an, out)
            /\ rv' = out.rv
            /\ UNCHANGED odf

CallConductance ==
    \E w \in WeightSpecs, an \in BOOLEAN :
        LET out == Conductance(attrs, w, an)
        IN  /\ Finish("conductance", w, an, out)
            /\ rv' = out.rv
            /\ UNCHANGED odf

CallSeparability ==
    \E w \in WeightSpecs, an \in BOOLEAN :
        LET out == Separability(attrs, w, an)
        IN  /\ Finish("separability", w, an, out)
            /\ rv' = out.rv
            /\ UNCHANGED odf

CallNormalizedCut ==
    \E w \in WeightSpecs, an \in BOOLEAN :
        LET out == NormalizedCut(attrs, w, an)
        IN  /\ Finish("normalized_cut", w, an, out)
            /\ rv' = out.rv
            /\ UNCHANGED odf

CallOutDegreeFraction ==
    \E w \in WeightSpecs, an \in BOOLEAN :
        LET out == OutDegreeFraction(attrs, w, an)
        IN  /\ Finish("out_degree_fraction", w, an, out)
            /\ odf' = out.rv
            /\ UNCHANGED rv

CallMaximumOutDegreeFraction ==
    \E w \in WeightSpecs :
        LET out == MaximumOutDegreeFraction(attrs, w)
        IN  /\ Finish("maximum_out_degree_fraction", w, FALSE, out)
            /\ rv' = out.rv
            /\ UNCHANGED odf

CallAverageOutDegreeFraction ==
    \E w \in WeightSpecs :
        LET out == AverageOutDegreeFraction(attrs, w)
        IN  /\ Finish("average_out_degree_fraction", w, FALSE, out)
            /\ rv' = out.rv
            /\ UNCHANGED odf

CallFlakeOutDegreeFraction ==
    \E w \in WeightSpecs :
        LET out == FlakeOutDegreeFraction(attrs, w)
        IN  /\ Finish("flake_out_degree_fraction", w, FALSE, out)
            /\ rv' = out.rv
            /\ UNCHANGED odf

Next ==
    \/ CallFomd
    \/ CallExpansion
    \/ CallCutRatio
    \/ CallConductance
    \/ CallSeparability
    \/ CallNormalizedCut
    \/ CallOutDegreeFraction
    \/ CallMaximumOutDegreeFraction
    \/ CallAverageOutDegreeFraction
    \/ CallFlakeOutDegreeFraction

Spec == Init /\ [][Next]_vars

\* conductance and out_degree_fraction alone, on the small inputs
InitSmall ==
    /\ nv \in 1 .. SmallV
    /\ es \in UndirectedEdgeLists(nv, SmallEdges)
    /\ wt \in [1 .. Len(es) -> Weights]
    /\ clusters \in Covers(nv, SmallK)
    /\ NoSubgraphMetrics
    /\ Idle

NextConductance == CallConductance

SpecConductance == InitSmall /\ [][NextConductance]_vars

NextOdf == CallOutDegreeFraction

SpecOdf == InitSmall /\ [][NextOdf]_vars

\* one cluster that holds every vertex of a connected graph
RECURSIVE Reach(_, _, _)
Reach(S, g, k) ==
    IF k = 0 THEN S
    ELSE Reach(S \cup {g[e][2] : e \in {d \in 1 .. Len(g) : g[d][1] \in S}}
                 \cup {g[e][1] : e \in {d \in 1 .. Len(g) : g[d][2] \in S}},
               g, k - 1)

Connected(n, g) == Reach({0}, g, n) = 0 .. n - 1

InitWhole ==
    /\ nv \in 1 .. NumV
    /\ es \in UndirectedEdgeLists(nv, MaxEdges)
    /\ Connected(nv, es)
    /\ wt \in [1 .. Len(es) -> Weights]
    /\ clusters = <<Vertices>>
    /\ NoSubgraphMetrics
    /\ Idle

NextWhole ==
    \/ CallExpansion
    \/ CallCutRatio
    \/ CallConductance
    \/ CallSeparability

SpecWhole == InitWhole /\ [][NextWhole]_vars


\* compute_metrics on a cover whose subgraphs report any sets of names
InitReport ==
    /\ nv \in 1 .. SmallV
    /\ es \in UndirectedEdgeLists(nv, SmallEdges)
    /\ wt \in [1 .. Len(es) -> Weights]
    /\ clusters \in Covers(nv, MaxK)
    /\ sg_metrics \in [1 .. Len(clusters) -> SUBSET SubgraphMetricNames]
    /\ Idle

CallComputeMetrics ==
    \E w \in WeightSpecs :
        LET out == ComputeMetrics(attrs, w)
        IN  /\ status = "idle"
            /\ call' = [fn |-> "compute_metrics", weights |-> w,
                        allow_nan |-> FALSE]
            /\ status' = IF out.raised = "none" THEN "returned" ELSE out.raised
            /\ attrs' = out.attrs
            /\ metrics' = IF out.raised = "none" THEN out.rv ELSE metrics
            /\ UNCHANGED <<nv, es, wt, clusters, sg_metrics, rv, ee, odf>>

NextReport == CallComputeMetrics

SpecReport == InitReport /\ [][NextReport]_vars

\* ------------------------------------------------------------------ claims
\* the edges with exactly one endpoint in the vertex set S
BoundaryOf(S) ==
    {e \in 1 .. Len(es) : (es[e][1] \in S) # (es[e][2] \in S)}

Returned(fn) == call.fn = fn /\ status = "returned"

\* C2: for every cover, overlapping ones included, and every cluster i,
\* external_edges(cover)[i] holds exactly the edges of the graph that have
\* exactly one endpoint in cluster i, whatever other clusters the endpoints
\* share.  Stated for the covers without an empty cluster, where entry i of
\* the result is computed from cluster i's own vertex set.
C2_BoundaryPerCluster ==
    (Returned("external_edges") /\ \A j \in 1 .. Len(clusters) : clusters[j] # {}) =>
        \A i \in 1 .. Len(clusters) :
            /\ SeqRange(ee[i]) = BoundaryOf(clusters[i])
            /\ Len(ee[i]) = Cardinality(BoundaryOf(clusters[i]))

\* C5: external_edges returns one entry per cluster, in the cover's order:
\* entry i holds the boundary edges (the crossing edges with one endpoint
\* inside) of the cover's cluster i, also when some clusters are empty.
C5_CoverOrder ==
    Returned("external_edges") =>
        /\ Len(ee) = Len(clusters)
        /\ \A i \in 1 .. Len(clusters) :
              SeqRange(ee[i]) =
                  {e \in BoundaryOf(clusters[i]) : Crossing(clusters, es[e])}

IsPartition(cl) ==
    \A v \in Vertices : Cardinality(Membership(cl, v)) = 1

\* the edges whose endpoints lie in different clusters of a partition
CrossingEdgesOfPartition ==
    {e \in 1 .. Len(es) :
        Membership(clusters, es[e][1]) # Membership(clusters, es[e][2])}

\* C6: for a cover that is a true partition, the sizes of the lists returned
\* by external_edges sum to twice the number of crossing edges.
C6_PartitionTwice ==
    (Returned("external_edges") /\ IsPartition(clusters)) =>
        SumSeq([i \in 1 .. Len(ee) |-> Len(ee[i])])
            = 2 * Cardinality(CrossingEdgesOfPartition)

\* a partition with an empty cluster ahead of a populated one and at least
\* two crossing edges has been indexed
C6_Witness ==
    /\ Returned("external_edges")
    /\ IsPartition(clusters)
    /\ Cardinality(CrossingEdgesOfPartition) >= 2
    /\ \E i, j \in 1 .. Len(clusters) : i < j /\ clusters[i] = {} /\ clusters[j] # {}


\* the six metrics that take a weight spec
WeightedMetrics ==
    {"fomd", "expansion", "conductance", "separability", "normalized_cut",
     "out_degree_fraction"}

\* C1: a metric that takes a weight spec leaves the graph's edge attributes
\* as they were before the call, on return and on failure alike: a synthetic
\* attribute attached for an explicit weight array is deleted again, and with
\* a named attribute or no weights nothing is added or deleted.
C1_AttributesRestored ==
    (call.fn \in WeightedMetrics /\ status # "idle") => attrs = {NamedAttr}

\* C3 as claimed: with no boundary edges conductance(i) is 0 without allow_nan
\* and NaN with allow_nan, whatever the internal edge weight of the cluster.
C3_NoBoundaryPolicyValue ==
    Returned("conductance") =>
        \A i \in 1 .. Len(clusters) :
            (BoundaryOf(clusters[i]) = {}
             /\ ExternalEdges(es, clusters)[i] = <<>>)
                => rv[i] = Mode(call.allow_nan)

\* C3 as amended: when external_edges lists no boundary edge for cluster i,
\* conductance(i) is NaN only if allow_nan is set and the internal edge weight
\* of the cluster is zero too (the denominator 2*int + ext is not positive);
\* it is 0 in every other case.
C3_NoBoundaryZeroUnlessNoWeight ==
    Returned("conductance") =>
        \A i \in 1 .. Len(clusters) :
            ExternalEdges(es, clusters)[i] = <<>>
                => rv[i] = IF call.allow_nan
                              /\ IntCnt(i, GetWeightAttr(attrs, "conductance",
                                                         call.weights).w_attr) <= 0
                           THEN NaN ELSE Zero

\* conductance has returned 0 under allow_nan for a cluster without boundary
\* edges whose internal edges have positive weight
C3_Witness ==
    /\ Returned("conductance")
    /\ call.allow_nan
    /\ call.weights = "weight"
    /\ \E i \in 1 .. Len(clusters) :
          /\ ExternalEdges(es, clusters)[i] = <<>>
          /\ IntCnt(i, NamedAttr) > 0
          /\ rv[i] = Zero

\* the nine per-cluster metrics
ClusterMetrics ==
    WeightedMetrics \cup
    {"cut_ratio", "maximum_out_degree_fraction", "average_out_degree_fraction",
     "flake_out_degree_fraction"}

\* C4: no metric function fails on a zero denominator, a cover with an empty
\* cluster included: none of the calls ends in ZeroDivisionError.
C4_NoZeroDivision ==
    call.fn \in ClusterMetrics => status # "ZeroDivisionError"

C8_WholeGraphCluster ==
    (clusters = <<Vertices>> /\ status = "returned") =>
        /\ call.fn = "expansion" => rv = <<Zero>>
        /\ call.fn = "cut_ratio" => rv = <<Zero>>
        /\ call.fn = "conductance" => rv = <<Zero>>
        /\ call.fn = "separability" => rv = <<Mode(call.allow_nan)>>

\* C8 as amended: expansion is 0 and separability the policy value; cut_ratio
\* is the policy value too, its denominator size*(n - size) being 0; and
\* conductance is 0 unless allow_nan is set and the graph's total edge weight
\* is zero, where it is NaN.
C8_WholeGraphClusterPolicy ==
    (clusters = <<Vertices>> /\ status = "returned") =>
        /\ call.fn = "expansion" => rv = <<Zero>>
        /\ call.fn = "cut_ratio" => rv = <<Mode(call.allow_nan)>>
        /\ call.fn = "conductance" =>
              rv = <<IF call.allow_nan
                        /\ WeightedSum(AllEdges,
                               GetWeightAttr(attrs, "conductance",
                                             call.weights).w_attr) <= 0
                     THEN NaN ELSE Zero>>
        /\ call.fn = "separability" => rv = <<Mode(call.allow_nan)>>

\* cut_ratio has returned NaN for the cluster of all three vertices of a
\* connected graph
C8_Witness ==
    /\ Returned("cut_ratio")
    /\ call.allow_nan
    /\ nv = NumV
    /\ clusters = <<Vertices>>
    /\ Len(es) >= 2
    /\ rv = <<NaN>>

\* C9: normalized_cut(i) is conductance(i) + ext / (2*(total - int) + ext)
\* when that denominator is positive; when it is zero the second term is the
\* policy value, 0 without allow_nan and NaN with it.
C9_NormalizedCutPolicy ==
    Returned("normalized_cut") =>
        \A i \in 1 .. Len(clusters) :
            LET w_attr == GetWeightAttr(attrs, "normalized_cut",
                                        call.weights).w_attr
                int == IntCnt(i, w_attr)
                ext == ExtCnt(i, ExternalEdges(es, clusters), w_attr)
                denominator == 2 * (WeightedSum(AllEdges, w_attr) - int) + ext
            IN  rv[i] = Plus(ConductanceValue(int, ext, FALSE),
                             IF denominator > 0 THEN Frac(ext, denominator)
                             ELSE Mode(call.allow_nan))

\* C10: after compute_metrics has finished on a cover of k clusters, every
\* metric name of cover.metrics, the nine cluster metrics and every name merged
\* in from the subgraphs, maps to a results list of length exactly k, whatever
\* sets of names the subgraphs report.
C10_ResultsLengthK ==
    Returned("compute_metrics") =>
        \A name \in DOMAIN metrics :
            Len(metrics[name].results) = Len(clusters)

====
